---- MODULE Spec2Model ----
(***************************************************************************)
(* Task API: the request-validation -> service -> persistence pipeline of  *)
(* src/src (schemas/task.py, api/tasks.py, services/task_service.py,       *)
(* models/task.py, main.py, database.py), one action per HTTP handler.     *)
(*                                                                         *)
(* In Spec, SpecUpdate and SpecValidation the requests are handled one     *)
(* after another, each in one step: validation of the path id and of the   *)
(* body by the framework, then the service call, then the commit or        *)
(* rollback of the request's session, then the rendering of the response.  *)
(* In SpecConcurrent updates and deletes overlap, one step per database    *)
(* round trip.                                                             *)
(***************************************************************************)
EXTENDS Integers, Sequences, FiniteSets, TLC

VARIABLES
    store,   \* the task table: a function from the ids of the live rows to rows
    issued,  \* the ids uuid4() has handed out so far
    clock,   \* the latest reading of datetime.utcnow()
    req,     \* the latest request: its operation, path segment and JSON body
    resp,    \* the response to it, with what handling it did
    sessions \* the units of work of the requests handled concurrently

vars == <<store, issued, clock, req, resp, sessions>>

----------------------------------------------------------------------------
(* Bounds of the model *)

\* number of distinct ids uuid4() can hand out (the number of creates of a run)
MaxTasks == 2
\* largest reading of the clock
MaxTime == 2
\* longest run of whitespace put before or after a title
MaxPad == 1
\* largest number of errors of one validation failure
MaxErrors == 3

(* Program constants *)

\* TaskCreate.title: Field(min_length=1, max_length=200)
CreateTitleMinLength == 1
CreateTitleMaxLength == 200
\* TaskUpdate.title: Field(default=None, min_length=1, max_length=200)
UpdateTitleMinLength == 1
UpdateTitleMaxLength == 200

----------------------------------------------------------------------------
(* Values *)

UUIDs == 1..MaxTasks
\* ids a client can name: those uuid4() can hand out and one it never does
ClientUUIDs == 1..(MaxTasks + 1)
Times == 0..MaxTime

\* characters str.strip() removes, and the others the inputs use
Whitespace == {" ", "\t"}
IsSpace(c) == c \in Whitespace

Rep(c, n) == [i \in 1..n |-> c]

\* a JSON member of a request body, and a nullable attribute of a model or of
\* a row: not there, null (None, NULL), or a value
Absent == <<"absent">>
Null == <<"null">>
Val(v) == <<"val", v>>
IsVal(m) == m[1] = "val"

----------------------------------------------------------------------------
(* Validation layer: schemas/task.py, and the path parameter of api/tasks.py *)

\* one entry of a validation error list, as pydantic reports it
Err(loc, type, msg) == [loc |-> loc, type |-> type, msg |-> msg]

RECURSIVE LStrip(_)
LStrip(s) == IF s = <<>> \/ ~IsSpace(Head(s)) THEN s ELSE LStrip(Tail(s))

RECURSIVE RStrip(_)
RStrip(s) ==
    IF s = <<>> \/ ~IsSpace(s[Len(s)]) THEN s ELSE RStrip(SubSeq(s, 1, Len(s) - 1))

\* str.strip()
Strip(s) == RStrip(LStrip(s))

\* the constraints of Field(min_length=lo, max_length=hi) on a str, which the
\* core schema applies to the value as received, before any field_validator
StrConstraints(v, lo, hi, loc) ==
    IF Len(v) < lo
    THEN <<Err(loc, "string_too_short", "String should have at least 1 character")>>
    ELSE IF Len(v) > hi
    THEN <<Err(loc, "string_too_long", "String should have at most 200 characters")>>
    ELSE <<>>

\* title_not_whitespace without the check: the title is stripped and returned
CreateTitleStripOnly(v) == [raised |-> FALSE, value |-> Strip(v)]

\* TaskCreate.title_not_whitespace, an "after" validator: [raised, value]
CreateTitleNotWhitespace(v) ==
    LET stripped == Strip(v)
    IN  IF stripped = <<>>
        THEN [raised |-> TRUE, value |-> <<>>]
        ELSE [raised |-> FALSE, value |-> stripped]

\* TaskUpdate.title_not_whitespace on a str (None is returned as it is, see
\* TaskUpdate below)
UpdateTitleNotWhitespace(v) ==
    LET stripped == Strip(v)
    IN  IF stripped = <<>>
        THEN [raised |-> TRUE, value |-> <<>>]
        ELSE [raised |-> FALSE, value |-> stripped]

WhitespaceError(loc) ==
    <<Err(loc, "value_error", "Value error, Title cannot be empty or whitespace only")>>

\* Validation of a POST body as TaskCreate: the errors, and the model when there
\* are none. title is a required str; description is str | None = None.
TaskCreate(body) ==
    LET loc == <<"body", "title">>
        t == body.title
        errors ==
            IF t = Absent THEN <<Err(loc, "missing", "Field required")>>
            ELSE IF t = Null THEN <<Err(loc, "string_type", "Input should be a valid string")>>
            ELSE IF StrConstraints(t[2], CreateTitleMinLength, CreateTitleMaxLength, loc) # <<>>
            THEN StrConstraints(t[2], CreateTitleMinLength, CreateTitleMaxLength, loc)
            ELSE IF CreateTitleNotWhitespace(t[2]).raised THEN WhitespaceError(loc)
            ELSE <<>>
    IN  [errors |-> errors,
         title |-> IF errors = <<>> THEN Val(CreateTitleNotWhitespace(t[2]).value) ELSE Null,
         description |-> IF IsVal(body.description) THEN body.description ELSE Null]

\* Validation of a PUT body as TaskUpdate. Every field is optional and
\* nullable: a field sent as null and a field not sent both have the value
\* None, and only the fields that were sent are in model_fields_set.
TaskUpdate(body) ==
    LET loc == <<"body", "title">>
        t == body.title
        errors ==
            IF ~IsVal(t) THEN <<>>
            ELSE IF StrConstraints(t[2], UpdateTitleMinLength, UpdateTitleMaxLength, loc) # <<>>
            THEN StrConstraints(t[2], UpdateTitleMinLength, UpdateTitleMaxLength, loc)
            ELSE IF UpdateTitleNotWhitespace(t[2]).raised THEN WhitespaceError(loc)
            ELSE <<>>
    IN  [errors |-> errors,
         fields_set |-> {k \in {"title", "description", "is_completed"} : body[k] # Absent},
         title |-> IF IsVal(t) /\ errors = <<>>
                   THEN Val(UpdateTitleNotWhitespace(t[2]).value) ELSE Null,
         description |-> IF IsVal(body.description) THEN body.description ELSE Null,
         is_completed |-> IF IsVal(body.is_completed) THEN body.is_completed ELSE Null]

\* The path parameter task_id: UUID. A path segment is a well-formed UUID
\* string or it is not; only the former parses.
PathUUID(raw) ==
    IF raw.wellformed
    THEN [errors |-> <<>>, value |-> raw.value]
    ELSE [errors |-> <<Err(<<"path", "task_id">>, "uuid_parsing",
                           "Input should be a valid UUID")>>,
          value |-> 0]

\* task_data.model_dump(exclude_unset=True): the keys of the dumped dict (its
\* values are the fields of task_data)
model_dump_exclude_unset(task_data) == task_data.fields_set

----------------------------------------------------------------------------
(* Task entity (models/task.py) and the task table *)

\* Task with the two timestamp defaults taken in the other order
TaskTimesSwapped(title, description, id, t1, t2) ==
    [id |-> id, title |-> title, description |-> description,
     is_completed |-> Val(FALSE), created_at |-> t2, updated_at |-> t1]

\* Task(title=..., description=...): id from uuid4(), is_completed False, and
\* created_at and updated_at each from its own call of datetime.utcnow()
Task(title, description, id, t1, t2) ==
    [id |-> id, title |-> title, description |-> description,
     is_completed |-> Val(FALSE), created_at |-> t1, updated_at |-> t2]

\* the table with the is_completed column left nullable
NotNullViolationCompletedNullable(task) == task.title = Null

\* the table with the title column left nullable
NotNullViolationTitleNullable(task) == task.is_completed = Null

\* nullable=False on title and is_completed: what the table refuses at flush
NotNullViolation(task) == task.title = Null \/ task.is_completed = Null

\* SetAttrs with description assigned whether or not it is a key
SetAttrsDescriptionAlways(task, task_data, keys) ==
    [task EXCEPT
        !.title = IF "title" \in keys THEN task_data.title ELSE @,
        !.description = task_data.description,
        !.is_completed = IF "is_completed" \in keys THEN task_data.is_completed ELSE @]

\* SetAttrs that skips the keys whose value is None
SetAttrsSkipNone(task, task_data, keys) ==
    [task EXCEPT
        !.title = IF "title" \in keys /\ task_data.title # Null
                  THEN task_data.title ELSE @,
        !.description = IF "description" \in keys /\ task_data.description # Null
                        THEN task_data.description ELSE @,
        !.is_completed = IF "is_completed" \in keys /\ task_data.is_completed # Null
                         THEN task_data.is_completed ELSE @]

\* setattr(task, key, value) for every key of update_data
SetAttrs(task, task_data, keys) ==
    [task EXCEPT
        !.title = IF "title" \in keys THEN task_data.title ELSE @,
        !.description = IF "description" \in keys THEN task_data.description ELSE @,
        !.is_completed = IF "is_completed" \in keys THEN task_data.is_completed ELSE @]

\* order_by(Task.created_at.asc()): the rows oldest first
OrderByCreatedAtAsc(st) ==
    LET n == Cardinality(DOMAIN st)
    IN  {[i \in 1..n |-> st[p[i]]] :
            p \in {q \in [1..n -> DOMAIN st] :
                     /\ \A i, j \in 1..n : i # j => q[i] # q[j]
                     /\ \A i, j \in 1..n :
                            i < j => st[q[i]].created_at <= st[q[j]].created_at}}

\* select(Task) without order_by: the rows in any order
OrderByNothing(st) ==
    LET n == Cardinality(DOMAIN st)
    IN  {[i \in 1..n |-> st[p[i]]] :
            p \in {q \in [1..n -> DOMAIN st] :
                     \A i, j \in 1..n : i # j => q[i] # q[j]}}

\* the rows of st in the orders ORDER BY created_at DESC can return them (the
\* order of rows with equal created_at is the storage engine's)
OrderByCreatedAtDesc(st) ==
    LET n == Cardinality(DOMAIN st)
    IN  {[i \in 1..n |-> st[p[i]]] :
            p \in {q \in [1..n -> DOMAIN st] :
                     /\ \A i, j \in 1..n : i # j => q[i] # q[j]
                     /\ \A i, j \in 1..n :
                            i < j => st[q[i]].created_at >= st[q[j]].created_at}}

----------------------------------------------------------------------------
(* Task service (services/task_service.py). Each operation yields what it      *)
(* raised, what it returned, the table as its session leaves it, and the       *)
(* statements the session sent to the database.                                *)

Outcome(raised, task_id, ret, st, db) ==
    [raised |-> raised, task_id |-> task_id, ret |-> ret, store |-> st, db |-> db]

\* get_task that stamps the row it reads: updated_at moves on by one
get_task_stamping(st, task_id) ==
    IF task_id \in DOMAIN st
    THEN Outcome("none", task_id, <<st[task_id]>>,
                 [st EXCEPT ![task_id].updated_at = @ + 1], <<"SELECT", "UPDATE">>)
    ELSE Outcome("TaskNotFoundError", task_id, <<>>, st, <<"SELECT">>)

get_task(st, task_id) ==
    IF task_id \in DOMAIN st
    THEN Outcome("none", task_id, <<st[task_id]>>, st, <<"SELECT">>)
    ELSE Outcome("TaskNotFoundError", task_id, <<>>, st, <<"SELECT">>)

\* create_task that leaves the new task as the only row of the table
create_task_replacing(st, task_data, id, t1, t2) ==
    LET task == Task(task_data.title, task_data.description, id, t1, t2)
    IN  Outcome("none", id, <<task>>, (id :> task), <<"INSERT", "COMMIT", "SELECT">>)

\* create_task without session.add: the task is returned and never inserted
create_task_not_added(st, task_data, id, t1, t2) ==
    LET task == Task(task_data.title, task_data.description, id, t1, t2)
    IN  Outcome("none", id, <<task>>, st, <<"COMMIT">>)

create_task(st, task_data, id, t1, t2) ==
    LET task == Task(task_data.title, task_data.description, id, t1, t2)
    IN  Outcome("none", id, <<task>>, (id :> task) @@ st,
                <<"INSERT", "COMMIT", "SELECT">>)

list_tasks(st, rows) == Outcome("none", 0, rows, st, <<"SELECT">>)

\* update_task without line 56: updated_at is left alone
update_task_no_touch(st, task_id, task_data, t) ==
    LET got == get_task(st, task_id)
        update_data == model_dump_exclude_unset(task_data)
        task == SetAttrs(got.ret[1], task_data, update_data)
    IN  IF got.raised # "none" THEN got
        ELSE IF NotNullViolation(task)
        THEN Outcome("IntegrityError", task_id, <<>>, st, <<"SELECT", "UPDATE">>)
        ELSE Outcome("none", task_id, <<task>>, [st EXCEPT ![task_id] = task],
                     <<"SELECT", "UPDATE", "COMMIT", "SELECT">>)

\* update_task that sets updated_at only when the request sent a field
update_task_touch_if_sent(st, task_id, task_data, t) ==
    LET got == get_task(st, task_id)
        update_data == model_dump_exclude_unset(task_data)
        task == [SetAttrs(got.ret[1], task_data, update_data) EXCEPT
                    !.updated_at = IF update_data = {} THEN @ ELSE t]
    IN  IF got.raised # "none" THEN got
        ELSE IF NotNullViolation(task)
        THEN Outcome("IntegrityError", task_id, <<>>, st, <<"SELECT", "UPDATE">>)
        ELSE Outcome("none", task_id, <<task>>, [st EXCEPT ![task_id] = task],
                     <<"SELECT", "UPDATE", "COMMIT", "SELECT">>)

\* update_task that refuses a task once it is completed
update_task_completed_is_final(st, task_id, task_data, t) ==
    LET got == get_task(st, task_id)
        update_data == model_dump_exclude_unset(task_data)
        task == [SetAttrs(got.ret[1], task_data, update_data) EXCEPT !.updated_at = t]
    IN  IF got.raised # "none" THEN got
        ELSE IF NotNullViolation(task) \/ got.ret[1].is_completed = Val(TRUE)
        THEN Outcome("IntegrityError", task_id, <<>>, st, <<"SELECT", "UPDATE">>)
        ELSE Outcome("none", task_id, <<task>>, [st EXCEPT ![task_id] = task],
                     <<"SELECT", "UPDATE", "COMMIT", "SELECT">>)

\* update_task that assigns the reading of the clock to created_at as well
update_task_touch_created(st, task_id, task_data, t) ==
    LET got == get_task(st, task_id)
        update_data == model_dump_exclude_unset(task_data)
        task == [SetAttrs(got.ret[1], task_data, update_data) EXCEPT
                    !.updated_at = t, !.created_at = t]
    IN  IF got.raised # "none" THEN got
        ELSE IF NotNullViolation(task)
        THEN Outcome("IntegrityError", task_id, <<>>, st, <<"SELECT", "UPDATE">>)
        ELSE Outcome("none", task_id, <<task>>, [st EXCEPT ![task_id] = task],
                     <<"SELECT", "UPDATE", "COMMIT", "SELECT">>)

update_task(st, task_id, task_data, t) ==
    LET got == get_task(st, task_id)
        update_data == model_dump_exclude_unset(task_data)
        task == [SetAttrs(got.ret[1], task_data, update_data) EXCEPT !.updated_at = t]
    IN  IF got.raised # "none" THEN got
        ELSE IF NotNullViolation(task)
        THEN Outcome("IntegrityError", task_id, <<>>, st, <<"SELECT", "UPDATE">>)
        ELSE Outcome("none", task_id, <<task>>, [st EXCEPT ![task_id] = task],
                     <<"SELECT", "UPDATE", "COMMIT", "SELECT">>)

\* delete_task without the existence check
delete_task_unchecked(st, task_id) ==
    Outcome("none", task_id, <<>>, [i \in DOMAIN st \ {task_id} |-> st[i]],
            <<"DELETE", "COMMIT">>)

\* delete_task whose DELETE has no WHERE clause: every row goes
delete_task_every_row(st, task_id) ==
    LET got == get_task(st, task_id)
    IN  IF got.raised # "none" THEN got
        ELSE Outcome("none", task_id, <<>>, <<>>, <<"SELECT", "DELETE", "COMMIT">>)

\* delete_task that finds the task and leaves its row in the table
delete_task_row_kept(st, task_id) ==
    LET got == get_task(st, task_id)
    IN  IF got.raised # "none" THEN got
        ELSE Outcome("none", task_id, <<>>, st, <<"SELECT", "COMMIT">>)

delete_task(st, task_id) ==
    LET got == get_task(st, task_id)
    IN  IF got.raised # "none" THEN got
        ELSE Outcome("none", task_id, <<>>,
                     [i \in DOMAIN st \ {task_id} |-> st[i]],
                     <<"SELECT", "DELETE", "COMMIT">>)

\* The outcome of a service call when its round trip number `at` to the
\* database raises (a lost connection, a statement or commit the database
\* rejects): the statements before it are done, it is the last one tried,
\* and nothing after it runs.
StoreFailure(out, at) ==
    [out EXCEPT !.raised = "OperationalError", !.ret = <<>>,
                !.db = SubSeq(@, 1, at)]

\* whether the service call committed before it returned or raised: a COMMIT
\* that is not the statement that raised
Committed(out) ==
    \E i \in DOMAIN out.db :
        /\ out.db[i] = "COMMIT"
        /\ out.raised # "none" => i < Len(out.db)

\* get_session (database.py): the request's unit of work. When the endpoint
\* raised, the session is rolled back and the table is as the last commit left
\* it, which is a commit of this request if the service call raised after its
\* own commit; otherwise what the service committed stands.
get_session(st, out) ==
    IF out.raised # "none"
    THEN [out EXCEPT !.store = IF Committed(out) THEN @ ELSE st,
                     !.db = Append(@, "ROLLBACK")]
    ELSE out

----------------------------------------------------------------------------
(* Exception handlers (main.py) and responses *)

NoFieldErrors == <<>>

Response(op, status, error_code, detail_id, keys, field_errors, body, out_id, db) ==
    [op |-> op, status |-> status, error_code |-> error_code,
     detail_id |-> detail_id, keys |-> keys, field_errors |-> field_errors,
     body |-> body, task_id |-> out_id, db |-> db]

\* the loop with field_errors[field] = [msg] for append: the last message of
\* a field replaces the earlier ones
RECURSIVE GroupByFieldLastOnly(_, _)
GroupByFieldLastOnly(errors, field_errors) ==
    IF errors = <<>> THEN field_errors
    ELSE LET error == Head(errors)
             field == IF error.loc # <<>> THEN error.loc[Len(error.loc)] ELSE "unknown"
         IN  GroupByFieldLastOnly(Tail(errors),
                                  (field :> <<error.msg>>) @@ field_errors)

\* the loop of validation_error_handler: messages grouped by str(loc[-1])
RECURSIVE GroupByField(_, _)
GroupByField(errors, field_errors) ==
    IF errors = <<>> THEN field_errors
    ELSE LET error == Head(errors)
             field == IF error.loc # <<>> THEN error.loc[Len(error.loc)] ELSE "unknown"
             started == IF field \in DOMAIN field_errors
                        THEN field_errors
                        ELSE (field :> <<>>) @@ field_errors
         IN  GroupByField(Tail(errors), [started EXCEPT ![field] = Append(@, error.msg)])

\* the framework's own rendering of RequestValidationError, which answers
\* when no handler is registered: 422 and the error list under "detail"
validation_error_handler_default(op, errors) ==
    Response(op, 422, "NONE", 0, {"detail"}, NoFieldErrors, <<>>, 0, <<>>)

validation_error_handler(op, errors) ==
    Response(op, 400, "VALIDATION_ERROR", 0,
             {"detail", "error_code", "field_errors"},
             GroupByField(errors, NoFieldErrors), <<>>, 0, <<>>)

\* TaskNotFoundError carries task_id, and its message names it
task_not_found_handler(op, out) ==
    Response(op, 404, "TASK_NOT_FOUND", out.task_id, {"detail", "error_code"},
             NoFieldErrors, <<>>, out.task_id, out.db)

\* an exception no handler is registered for: the framework's 500
server_error(op, out) ==
    Response(op, 500, "NONE", 0, {}, NoFieldErrors, <<>>, out.task_id, out.db)

\* the response to a request whose endpoint ran: success is the status code of
\* the route, with the returned tasks as TaskResponse
Render(op, success, out) ==
    IF out.raised = "TaskNotFoundError" THEN task_not_found_handler(op, out)
    ELSE IF out.raised # "none" THEN server_error(op, out)
    ELSE Response(op, success, "NONE", 0, {}, NoFieldErrors, out.ret, out.task_id, out.db)

----------------------------------------------------------------------------
(* Requests a client can send *)

Pad(n) == Rep(" ", n)

Members(values) == {Absent, Null} \cup {Val(v) : v \in values}

\* lengths of the non-blank part of a title: none, the shortest and the
\* longest allowed, and one more
TitleCoreLens == {0, CreateTitleMinLength, CreateTitleMaxLength, CreateTitleMaxLength + 1}

\* titles with up to MaxPad blanks on either side
PaddedTitles ==
    {Pad(l) \o Rep("a", n) \o Pad(r) : l \in 0..MaxPad, r \in 0..MaxPad, n \in TitleCoreLens}

\* two short titles that differ once stripped, the second padded
FirstTitle == <<"a">>
SecondTitle == <<" ", "b", "\t">>

Descriptions == {"d1"}

Bodies(titles, descriptions, completions) ==
    [title : titles, description : descriptions, is_completed : completions]

\* JSON bodies with members TaskUpdate does not declare: the bodies of a set,
\* as they are and with an id and a created_at member added. The schema has
\* no extra="forbid", so validation drops what it does not declare.
WithUndeclared(bodies) ==
    {body @@ extra :
        body \in bodies,
        extra \in {[id |-> Absent, created_at |-> Absent],
                   [id |-> Val(MaxTasks + 1), created_at |-> Val(MaxTime)]}}

\* the path segments naming the ids of a set, and one that names no id
PathIds(uuids) ==
    {[wellformed |-> TRUE, value |-> u] : u \in uuids}
        \cup {[wellformed |-> FALSE, value |-> 0]}

\* The requests of the life-cycle specification: up to MaxTasks tasks, one
\* title, updates of is_completed with and without undeclared members.
Requests ==
    [uuids |-> UUIDs,
     create |-> Bodies({Val(FirstTitle)}, {Absent}, {Absent}),
     update |-> WithUndeclared(Bodies({Absent}, {Absent}, {Absent, Val(TRUE)})),
     ids |-> PathIds(ClientUUIDs)]

\* The requests of the update specification: one task, created with one title
\* and with or without a description; updates with every combination of sent,
\* null and absent fields.
UpdateRequests ==
    [uuids |-> {1},
     create |-> Bodies({Val(FirstTitle)}, {Absent, Val("d1")}, {Absent}),
     update |-> Bodies(Members({SecondTitle}), Members(Descriptions), Members(BOOLEAN)),
     ids |-> PathIds({1, 2})]

\* The requests of the validation specification: one task, every padded
\* title, the other fields absent.
ValidationRequests ==
    [uuids |-> {1},
     create |-> Bodies(Members(PaddedTitles), {Absent}, {Absent}),
     update |-> Bodies(Members(PaddedTitles), {Absent}, {Absent}),
     ids |-> PathIds({1, 2})]

----------------------------------------------------------------------------
(* Endpoints (api/tasks.py): the framework validates the path parameter and *)
(* the body, and calls the endpoint only when neither has an error.         *)

\* the update and delete requests in flight at once, each with its own session
Sessions == {1, 2}

\* a unit of work: where its request is (pc), the request, the task as the
\* session loaded it and as the request has set it, the place of its commit
\* among the commits, and the response once there is one
IdleSession ==
    [pc |-> "idle", path |-> <<>>, body |-> <<>>, loaded |-> <<>>, task |-> <<>>,
     order |-> 0, status |-> 0, ret |-> <<>>]

\* uuid4(): an id never handed out before. Ids carry no order the program
\* reads, so the least unused one stands for any of them.
uuid4(uuids) ==
    {id \in uuids \ issued : \A other \in uuids \ issued : id <= other}

\* a request: path and body hold one element, or none when the route has none
Request(op, path, body) == [op |-> op, path |-> path, body |-> body]

Init ==
    /\ store = <<>>
    /\ issued = {}
    /\ clock = 0
    /\ req = Request("none", <<>>, <<>>)
    /\ resp = Response("none", 0, "NONE", 0, {}, NoFieldErrors, <<>>, 0, <<>>)
    /\ sessions = [s \in Sessions |-> IdleSession]

Finish(op, success, out) ==
    /\ store' = out.store
    /\ resp' = Render(op, success, out)

Reject(op, errors) ==
    /\ resp' = validation_error_handler(op, errors)
    /\ UNCHANGED <<store, issued, clock>>

api_create_task(uuids, body) ==
    LET task_data == TaskCreate(body)
    IN  /\ req' = Request("create", <<>>, <<body>>)
        /\ IF task_data.errors # <<>> THEN Reject("create", task_data.errors)
           ELSE \E id \in uuid4(uuids), t1, t2 \in Times :
                   /\ clock <= t1 /\ t1 <= t2
                   /\ Finish("create", 201,
                             get_session(store, create_task(store, task_data, id, t1, t2)))
                   /\ issued' = issued \cup {id}
                   /\ clock' = t2

api_list_tasks ==
    \E rows \in OrderByCreatedAtDesc(store) :
        /\ req' = Request("list", <<>>, <<>>)
        /\ Finish("list", 200, get_session(store, list_tasks(store, rows)))
        /\ UNCHANGED <<issued, clock>>

api_get_task(raw) ==
    LET task_id == PathUUID(raw)
    IN  /\ req' = Request("get", <<raw>>, <<>>)
        /\ IF task_id.errors # <<>> THEN Reject("get", task_id.errors)
           ELSE /\ Finish("get", 200, get_session(store, get_task(store, task_id.value)))
                /\ UNCHANGED <<issued, clock>>

\* update_task with the body taken as it comes, checked by nothing before the
\* endpoint runs
UpdateRequestErrorsPathOnly(raw, body) == PathUUID(raw).errors

\* update_task(task_id: UUID, task_data: TaskUpdate, ...): the errors of the
\* path parameter, then those of the body, found before the endpoint is called
UpdateRequestErrors(raw, body) == PathUUID(raw).errors \o TaskUpdate(body).errors

api_update_task(raw, body) ==
    LET task_id == PathUUID(raw)
        task_data == TaskUpdate(body)
        errors == UpdateRequestErrors(raw, body)
    IN  /\ req' = Request("update", <<raw>>, <<body>>)
        /\ IF errors # <<>> THEN Reject("update", errors)
           ELSE \E t \in Times :
                   /\ clock <= t
                   \* the clock is read only once the task was found
                   /\ task_id.value \notin DOMAIN store => t = clock
                   /\ Finish("update", 200,
                             get_session(store,
                                         update_task(store, task_id.value, task_data, t)))
                   /\ clock' = t
                   /\ UNCHANGED issued

api_delete_task(raw) ==
    LET task_id == PathUUID(raw)
    IN  /\ req' = Request("delete", <<raw>>, <<>>)
        /\ IF task_id.errors # <<>> THEN Reject("delete", task_id.errors)
           ELSE /\ Finish("delete", 204,
                          get_session(store, delete_task(store, task_id.value)))
                /\ UNCHANGED <<issued, clock>>

Handle(requests) ==
    \/ \E body \in requests.create :
          api_create_task(requests.uuids, [title |-> body.title, description |-> body.description])
    \/ api_list_tasks
    \/ \E raw \in requests.ids : api_get_task(raw)
    \/ \E raw \in requests.ids, body \in requests.update : api_update_task(raw, body)
    \/ \E raw \in requests.ids : api_delete_task(raw)

Next == Handle(Requests) /\ UNCHANGED sessions

Spec == Init /\ [][Next]_vars

NextUpdate == Handle(UpdateRequests) /\ UNCHANGED sessions

SpecUpdate == Init /\ [][NextUpdate]_vars

NextValidation == Handle(ValidationRequests) /\ UNCHANGED sessions

SpecValidation == Init /\ [][NextValidation]_vars

----------------------------------------------------------------------------
(* Updates and deletes handled concurrently. Each request has its own       *)
(* session (get_session), and between the awaits of a service method the    *)
(* other requests run: the SELECT of get_task, the assignments with the     *)
(* reading of the clock, the flush and COMMIT of session.commit(), and the  *)
(* SELECT of session.refresh() are steps of their own. The database is read *)
(* committed or better: a SELECT sees the committed rows, and the UPDATE or *)
(* DELETE of a flush and its COMMIT take effect together, in the order of   *)
(* the commits.                                                             *)

\* the columns a flush can put in the SET clause of an UPDATE
Columns == {"title", "description", "is_completed", "created_at", "updated_at"}

\* The unit of work writes the attributes whose value differs from the one
\* the session loaded; an attribute set to the value it was loaded with is
\* no change and is not in the UPDATE.
NetChanges(loaded, task) == {c \in Columns : task[c] # loaded[c]}

\* UPDATE task SET cols = ... WHERE id = ...: the row with the columns written
UpdateRow(row, task, cols) ==
    [c \in DOMAIN row |-> IF c \in cols THEN task[c] ELSE row[c]]

\* the request of session s reaches the endpoint and get_task runs its SELECT
session_select(s, raw, body) ==
    LET task_id == PathUUID(raw)
        got == get_task(store, task_id.value)
    IN  /\ sessions[s].pc = "idle"
        /\ UpdateRequestErrors(raw, body) = <<>>
        /\ sessions' = [sessions EXCEPT ![s] =
              IF got.raised # "none"
              THEN [@ EXCEPT !.pc = "done", !.path = <<raw>>, !.body = <<body>>,
                             !.status = 404]
              ELSE [@ EXCEPT !.pc = "selected", !.path = <<raw>>, !.body = <<body>>,
                             !.loaded = got.ret]]
        /\ UNCHANGED <<store, issued, clock, req, resp>>

\* lines 52-56 on the loaded task: the sent fields and updated_at are set
session_set(s) ==
    LET task_data == TaskUpdate(sessions[s].body[1])
        update_data == model_dump_exclude_unset(task_data)
    IN  /\ sessions[s].pc = "selected"
        /\ \E t \in Times :
              /\ clock <= t
              /\ clock' = t
              /\ sessions' = [sessions EXCEPT ![s] = [@ EXCEPT
                    !.pc = "set",
                    !.task = <<[SetAttrs(sessions[s].loaded[1], task_data, update_data)
                                  EXCEPT !.updated_at = t]>>]]
        /\ UNCHANGED <<store, issued, req, resp>>

\* session.commit() of a session that merges: a task whose row is gone is
\* inserted again
session_commit_merging(s) ==
    LET me == sessions[s]
        id == PathUUID(me.path[1]).value
        cols == NetChanges(me.loaded[1], me.task[1])
        committed == {o \in Sessions : sessions[o].order > 0}
    IN  /\ me.pc = "set"
        /\ IF NotNullViolation(me.task[1])
           THEN /\ sessions' = [sessions EXCEPT ![s] =
                      [@ EXCEPT !.pc = "done", !.status = 500]]
                /\ UNCHANGED store
           ELSE /\ sessions' = [sessions EXCEPT ![s] =
                      [@ EXCEPT !.pc = "committed",
                                !.order = Cardinality(committed) + 1]]
                /\ store' = IF id \notin DOMAIN store THEN (id :> me.task[1]) @@ store
                            ELSE IF cols = {} THEN store
                            ELSE [store EXCEPT ![id] = UpdateRow(@, me.task[1], cols)]
        /\ UNCHANGED <<issued, clock, req, resp>>

\* session.commit(): the flush sends the UPDATE of the changed columns and
\* the transaction commits. The table refuses a NULL title or is_completed
\* (IntegrityError), and an UPDATE that matches no row because the row was
\* deleted meanwhile is a StaleDataError; both end the request with 500 and
\* the rollback of get_session.
session_commit(s) ==
    LET me == sessions[s]
        id == PathUUID(me.path[1]).value
        cols == NetChanges(me.loaded[1], me.task[1])
        committed == {o \in Sessions : sessions[o].order > 0}
    IN  /\ me.pc = "set"
        /\ IF NotNullViolation(me.task[1]) \/ (cols # {} /\ id \notin DOMAIN store)
           THEN /\ sessions' = [sessions EXCEPT ![s] =
                      [@ EXCEPT !.pc = "done", !.status = 500]]
                /\ UNCHANGED store
           ELSE /\ sessions' = [sessions EXCEPT ![s] =
                      [@ EXCEPT !.pc = "committed",
                                !.order = Cardinality(committed) + 1]]
                /\ store' = IF cols = {} THEN store
                            ELSE [store EXCEPT ![id] = UpdateRow(@, me.task[1], cols)]
        /\ UNCHANGED <<issued, clock, req, resp>>

\* session.refresh(task): the row is read again and returned with 200; a row
\* deleted since the commit cannot be refreshed and the request ends with 500
session_refresh(s) ==
    LET id == PathUUID(sessions[s].path[1]).value
    IN  /\ sessions[s].pc = "committed"
        /\ sessions' = [sessions EXCEPT ![s] =
              IF id \in DOMAIN store
              THEN [@ EXCEPT !.pc = "done", !.status = 200, !.ret = <<store[id]>>]
              ELSE [@ EXCEPT !.pc = "done", !.status = 500]]
        /\ UNCHANGED <<store, issued, clock, req, resp>>

\* the delete request of session s reaches the endpoint and get_task runs
\* its SELECT: the existence check of delete_task
session_delete_select(s, raw) ==
    LET task_id == PathUUID(raw)
        got == get_task(store, task_id.value)
    IN  /\ sessions[s].pc = "idle"
        /\ task_id.errors = <<>>
        /\ sessions' = [sessions EXCEPT ![s] =
              IF got.raised # "none"
              THEN [@ EXCEPT !.pc = "done", !.path = <<raw>>, !.status = 404]
              ELSE [@ EXCEPT !.pc = "found", !.path = <<raw>>, !.loaded = got.ret]]
        /\ UNCHANGED <<store, issued, clock, req, resp>>

\* session.delete(task) and session.commit(): the flush sends DELETE ... WHERE
\* id = ... and the transaction commits. A DELETE that matches no row,
\* because another request deleted the row since the existence check, is a
\* warning of the unit of work and no exception: the request is answered 204.
session_delete_commit(s) ==
    LET id == PathUUID(sessions[s].path[1]).value
    IN  /\ sessions[s].pc = "found"
        /\ sessions' = [sessions EXCEPT ![s] = [@ EXCEPT !.pc = "done", !.status = 204]]
        /\ store' = [i \in DOMAIN store \ {id} |-> store[i]]
        /\ UNCHANGED <<issued, clock, req, resp>>

\* The requests of the concurrent specification: one task; updates of
\* is_completed to the value it has and to the other one, and deletes.
ConcurrentRequests ==
    [uuids |-> {1},
     create |-> Bodies({Val(FirstTitle)}, {Absent}, {Absent}),
     update |-> Bodies({Absent}, {Absent}, {Absent, Val(FALSE), Val(TRUE)}),
     ids |-> PathIds({1})]

NextConcurrent ==
    \/ /\ \E body \in ConcurrentRequests.create :
             api_create_task(ConcurrentRequests.uuids,
                             [title |-> body.title, description |-> body.description])
       /\ UNCHANGED sessions
    \/ /\ \E raw \in ConcurrentRequests.ids : api_get_task(raw)
       /\ UNCHANGED sessions
    \/ \E s \in Sessions, raw \in ConcurrentRequests.ids, body \in ConcurrentRequests.update :
          session_select(s, raw, body)
    \/ \E s \in Sessions : session_set(s)
    \/ \E s \in Sessions : session_commit(s)
    \/ \E s \in Sessions : session_refresh(s)
    \/ \E s \in Sessions, raw \in ConcurrentRequests.ids : session_delete_select(s, raw)
    \/ \E s \in Sessions : session_delete_commit(s)

SpecConcurrent == Init /\ [][NextConcurrent]_vars

----------------------------------------------------------------------------
(* Requests during which the database fails. The service methods catch      *)
(* nothing and try nothing twice, so the exception of the failing round     *)
(* trip leaves the endpoint, get_session rolls back and raises it again,    *)
(* and the framework answers 500.                                           *)

\* the round trips of a service call that can fail: those it makes when it
\* finds what it looks for
RoundTrips(out) == IF out.raised = "none" THEN DOMAIN out.db ELSE {}

api_create_task_failing(uuids, body) ==
    LET task_data == TaskCreate(body)
    IN  /\ req' = Request("create", <<>>, <<body>>)
        /\ task_data.errors = <<>>
        /\ \E id \in uuid4(uuids), t1, t2 \in Times :
              LET out == create_task(store, task_data, id, t1, t2)
              IN  /\ clock <= t1 /\ t1 <= t2
                  /\ \E at \in RoundTrips(out) :
                        Finish("create", 201, get_session(store, StoreFailure(out, at)))
                  /\ issued' = issued \cup {id}
                  /\ clock' = t2

api_update_task_failing(raw, body) ==
    LET task_id == PathUUID(raw)
        task_data == TaskUpdate(body)
    IN  /\ req' = Request("update", <<raw>>, <<body>>)
        /\ UpdateRequestErrors(raw, body) = <<>>
        /\ \E t \in Times :
              LET out == update_task(store, task_id.value, task_data, t)
              IN  /\ clock <= t
                  /\ \E at \in RoundTrips(out) :
                        /\ at = 1 => t = clock
                        /\ Finish("update", 200, get_session(store, StoreFailure(out, at)))
                  /\ clock' = t
                  /\ UNCHANGED issued

api_delete_task_failing(raw) ==
    LET task_id == PathUUID(raw)
        out == delete_task(store, task_id.value)
    IN  /\ req' = Request("delete", <<raw>>, <<>>)
        /\ task_id.errors = <<>>
        /\ \E at \in RoundTrips(out) :
              Finish("delete", 204, get_session(store, StoreFailure(out, at)))
        /\ UNCHANGED <<issued, clock>>

\* The requests of the failure specification: two tasks, plain bodies.
FailureRequests ==
    [uuids |-> {1, 2},
     create |-> Bodies({Val(FirstTitle)}, {Absent}, {Absent}),
     update |-> Bodies({Absent}, {Absent}, {Absent, Val(TRUE)}),
     ids |-> PathIds({1, 2})]

HandleFailing(requests) ==
    \/ \E body \in requests.create :
          api_create_task_failing(requests.uuids,
                                  [title |-> body.title, description |-> body.description])
    \/ \E raw \in requests.ids, body \in requests.update : api_update_task_failing(raw, body)
    \/ \E raw \in requests.ids : api_delete_task_failing(raw)

NextFailure ==
    \/ Handle(FailureRequests) /\ UNCHANGED sessions
    \/ HandleFailing(FailureRequests) /\ UNCHANGED sessions

SpecFailure == Init /\ [][NextFailure]_vars

----------------------------------------------------------------------------
(* validation_error_handler on the error lists a RequestValidationError can *)
(* carry: any number of errors, several for one field, locations of any     *)
(* depth, the empty location among them.                                    *)

ErrorLocs ==
    {<<>>, <<"body", "title">>, <<"body", "description">>, <<"body", "item", "title">>}

ErrorMsgs == {"Field required", "Input should be a valid string"}

ErrorLists ==
    UNION {[1..n -> {Err(loc, "type", msg) : loc \in ErrorLocs, msg \in ErrorMsgs}] :
             n \in 0..MaxErrors}

\* a request that failed validation with the error list `errors` is waiting
\* for its response
InitGrouping ==
    /\ store = <<>>
    /\ issued = {}
    /\ clock = 0
    /\ \E errors \in ErrorLists : req = Request("invalid", <<>>, <<errors>>)
    /\ resp = Response("none", 0, "NONE", 0, {}, NoFieldErrors, <<>>, 0, <<>>)
    /\ sessions = [s \in Sessions |-> IdleSession]

\* the handler answers it
api_invalid_request ==
    /\ resp.op = "none"
    /\ Reject(req.op, req.body[1])
    /\ UNCHANGED <<req, sessions>>

NextGrouping == api_invalid_request

SpecGrouping == InitGrouping /\ [][NextGrouping]_vars

----------------------------------------------------------------------------
(* Properties. req' and resp' describe the request a step handles, store the *)
(* table before it and store' the table after it.                           *)

UpdatableFields == {"title", "description", "is_completed"}

\* the fields a JSON body supplies
Sent(body) == {k \in UpdatableFields : body[k] # Absent}

\* the id a request names in its path
PathId(r) == r.path[1].value

\* C1: a successful update leaves every field it was not sent, and id and
\* created_at, as they were, in the table and in the returned record; only the
\* sent fields and updated_at may differ.
C1_UpdateChangesOnlySentFields ==
    [][(req'.op = "update" /\ resp'.status = 200) =>
          LET id == PathId(req')
              kept == {"id", "created_at"} \cup (UpdatableFields \ Sent(req'.body[1]))
          IN  /\ id \in DOMAIN store
              /\ DOMAIN store' = DOMAIN store
              /\ Len(resp'.body) = 1
              /\ \A f \in kept : /\ store'[id][f] = store[id][f]
                                 /\ resp'.body[1][f] = store[id][f]]_vars

\* an update that sent only a title succeeded on a task that has a description
C1_Witness ==
    /\ req.op = "update" /\ resp.status = 200
    /\ Sent(req.body[1]) = {"title"}
    /\ resp.body[1].title = Val(<<"b">>)
    /\ resp.body[1].description = Val("d1")

\* C2: on a task whose description is not null, a successful update that sends
\* description as null leaves description null, and one that does not send
\* description leaves it as it was.
C2_NullClearsAbsentKeepsDescription ==
    [][(/\ req'.op = "update" /\ resp'.status = 200
        /\ PathId(req') \in DOMAIN store
        /\ store[PathId(req')].description # Null) =>
          LET id == PathId(req')
              sent == req'.body[1].description
          IN  /\ sent = Null =>
                    /\ store'[id].description = Null
                    /\ resp'.body[1].description = Null
              /\ sent = Absent =>
                    /\ store'[id].description = store[id].description
                    /\ resp'.body[1].description = store[id].description]_vars

\* an update that sent description as null succeeded and the task has none now
C2_Witness ==
    /\ req.op = "update" /\ resp.status = 200
    /\ req.body[1].description = Null
    /\ store[PathId(req)].description = Null

\* a request that passes validation: its path id parses and its body has no error
Validated(r) ==
    /\ r.path # <<>> => PathUUID(r.path[1]).errors = <<>>
    /\ r.op = "update" => TaskUpdate(r.body[1]).errors = <<>>
    /\ r.op = "create" => TaskCreate(r.body[1]).errors = <<>>

\* C3: get, update and delete of an id that has no row fail with NotFound
\* carrying that id, and leave the table as it was.
C3_AbsentIdIsNotFound ==
    [][(/\ req'.op \in {"get", "update", "delete"}
        /\ Validated(req')
        /\ PathId(req') \notin DOMAIN store) =>
          /\ resp'.status = 404
          /\ resp'.error_code = "TASK_NOT_FOUND"
          /\ resp'.detail_id = PathId(req')
          /\ resp'.body = <<>>
          /\ store' = store]_vars

\* a delete of an id with no row was answered while another task is stored
C3_Witness ==
    /\ req.op = "delete" /\ resp.status = 404
    /\ PathId(req) \notin DOMAIN store
    /\ store # <<>>

\* what trimming a title means: the part from its first to its last
\* non-whitespace character
Trimmed(s) ==
    LET Blank(i) == s[i] \in Whitespace
    IN  IF \A i \in 1..Len(s) : Blank(i) THEN <<>>
        ELSE SubSeq(s,
                    CHOOSE i \in 1..Len(s) : ~Blank(i) /\ \A j \in 1..(i - 1) : Blank(j),
                    CHOOSE i \in 1..Len(s) : ~Blank(i) /\ \A j \in (i + 1)..Len(s) : Blank(j))

\* a title member that is a string whose trimmed length is 1 to 200
TrimsToValidTitle(m) ==
    /\ IsVal(m)
    /\ Len(Trimmed(m[2])) >= CreateTitleMinLength
    /\ Len(Trimmed(m[2])) <= CreateTitleMaxLength

\* C4: a create whose title has 1 to 200 characters once trimmed is accepted
\* and stores the trimmed title, whatever the length of the title as sent.
C4_TrimmedLengthDecidesCreate ==
    (req.op = "create" /\ TrimsToValidTitle(req.body[1].title)) =>
        /\ resp.status = 201
        /\ resp.body[1].title = Val(Trimmed(req.body[1].title[2]))

\* C5: a create whose title is absent (or null), empty once trimmed, or longer
\* than 200 characters once trimmed is rejected with a validation error and
\* adds no row; a title of 200 characters is accepted, one of 201 is rejected.
C5_CreateRejectsBadTitles ==
    [][req'.op = "create" =>
          LET title == req'.body[1].title
          IN  /\ ~TrimsToValidTitle(title) =>
                    /\ resp'.status = 400
                    /\ resp'.error_code = "VALIDATION_ERROR"
                    /\ store' = store
                    /\ issued' = issued
              /\ title = Val(Rep("a", CreateTitleMaxLength)) =>
                    /\ resp'.status = 201
                    /\ Cardinality(DOMAIN store') = Cardinality(DOMAIN store) + 1
                    /\ store'[resp'.task_id].title = title
              /\ title = Val(Rep("a", CreateTitleMaxLength + 1)) =>
                    resp'.status = 400]_vars

\* a create with a blank title was rejected
C5_Witness ==
    /\ req.op = "create" /\ resp.status = 400
    /\ IsVal(req.body[1].title)
    /\ Len(req.body[1].title[2]) > 0
    /\ Trimmed(req.body[1].title[2]) = <<>>

\* C6: an update of a stored task that sends a title is accepted, storing the
\* trimmed title, when the title has 1 to 200 characters once trimmed; any
\* other sent title fails with a validation error and leaves the row as it was.
C6_TrimmedLengthDecidesUpdate ==
    [][(/\ req'.op = "update"
        /\ req'.path[1].wellformed
        /\ PathId(req') \in DOMAIN store
        /\ req'.body[1].title # Absent) =>
          LET id == PathId(req')
              title == req'.body[1].title
          IN  IF TrimsToValidTitle(title)
              THEN /\ resp'.status = 200
                   /\ store'[id].title = Val(Trimmed(title[2]))
              ELSE /\ resp'.status = 400
                   /\ resp'.error_code = "VALIDATION_ERROR"
                   /\ store' = store]_vars

\* C7: a request that fails validation is answered 400 VALIDATION_ERROR with
\* no statement sent to the database and the table as it was; so is an update
\* with an invalid title of an id that has no row.
C7_ValidationBeforeStore ==
    [][~Validated(req') =>
          /\ resp'.status = 400
          /\ resp'.error_code = "VALIDATION_ERROR"
          /\ resp'.db = <<>>
          /\ store' = store]_vars

\* an update with a blank title of an id that has no row was answered 400
C7_Witness ==
    /\ req.op = "update" /\ resp.status = 400
    /\ req.path[1].wellformed
    /\ PathId(req) \notin DOMAIN store
    /\ req.body[1].title = Val(Pad(1))
    /\ store # <<>>

\* C8: the record a successful create returns has created_at = updated_at and
\* is_completed false.
C8_CreateTimestampsEqual ==
    (req.op = "create" /\ resp.status = 201) =>
        /\ resp.body[1].created_at = resp.body[1].updated_at
        /\ resp.body[1].is_completed = Val(FALSE)

\* C9 as claimed: every successful update makes updated_at strictly greater
\* than it was.
C9_UpdatedAtStrictlyIncreases ==
    [][(req'.op = "update" /\ resp'.status = 200) =>
          resp'.body[1].updated_at > store[PathId(req')].updated_at]_vars

\* C9 as amended: a successful update never makes updated_at smaller, and
\* makes it strictly greater whenever the clock reads later than the previous
\* updated_at.
C9_UpdatedAtFollowsClock ==
    [][(req'.op = "update" /\ resp'.status = 200) =>
          LET before == store[PathId(req')].updated_at
              after == resp'.body[1].updated_at
          IN  /\ after >= before
              /\ clock' > before => after > before
              /\ store'[PathId(req')].updated_at = after]_vars

\* an update succeeded and left updated_at later than created_at
C9_Witness ==
    /\ req.op = "update" /\ resp.status = 200
    /\ resp.body[1].updated_at > resp.body[1].created_at
    /\ Sent(req.body[1]) = {"is_completed"}

\* C10: every successful update sets updated_at to the time read during it,
\* also when it sent no field or the values the row already had; an update
\* that sent no field changes nothing else.
C10_UpdateAlwaysTouches ==
    [][(req'.op = "update" /\ resp'.status = 200) =>
          LET id == PathId(req')
          IN  /\ store'[id].updated_at = clock'
              /\ resp'.body[1].updated_at = clock'
              /\ Sent(req'.body[1]) = {} =>
                    store' = [store EXCEPT ![id].updated_at = clock']]_vars

\* an update that sent no field succeeded, and updated_at is past created_at
C10_Witness ==
    /\ req.op = "update" /\ resp.status = 200
    /\ Sent(req.body[1]) = {}
    /\ store[PathId(req)].updated_at > store[PathId(req)].created_at
    /\ store[PathId(req)].updated_at = clock

\* C11: every row of the table has updated_at >= created_at, whatever creates
\* and updates came before (the clock not going backwards).
C11_UpdatedNotBeforeCreated ==
    \A id \in DOMAIN store : store[id].updated_at >= store[id].created_at

\* two rows, one updated after a later reading of the clock, one whose
\* timestamps are still equal
C11_Witness ==
    /\ req.op = "update" /\ resp.status = 200
    /\ Cardinality(DOMAIN store) = 2
    /\ \E id \in DOMAIN store : store[id].updated_at > store[id].created_at
    /\ \E id \in DOMAIN store : store[id].updated_at = store[id].created_at

\* members of a JSON body that name no field of the schema
Undeclared(body) == {k \in DOMAIN body \ UpdatableFields : body[k] # Absent}

\* C12: no step changes the id or the created_at of a row that is in the
\* table before and after it, a row's id is the key it is stored under, and
\* the record a successful update returns carries the id and the created_at
\* the row had before, whatever members the body has.
C12_IdAndCreatedAtNeverChange ==
    [][/\ \A id \in DOMAIN store \cap DOMAIN store' :
              /\ store'[id].id = store[id].id
              /\ store'[id].created_at = store[id].created_at
       /\ \A id \in DOMAIN store' : store'[id].id = id
       /\ (req'.op = "update" /\ resp'.status = 200) =>
              /\ resp'.body[1].id = PathId(req')
              /\ resp'.body[1].created_at = store[PathId(req')].created_at]_vars

\* an update whose body carries another id and a later created_at succeeded
\* on a row created at the first reading of the clock
C12_Witness ==
    /\ req.op = "update" /\ resp.status = 200
    /\ Undeclared(req.body[1]) = {"id", "created_at"}
    /\ req.body[1].id # Val(PathId(req))
    /\ req.body[1].created_at # Val(store[PathId(req)].created_at)
    /\ store[PathId(req)].updated_at > store[PathId(req)].created_at

\* C13: every row of the table has a title that is a string (not NULL), not
\* empty and not made of whitespace only, whatever requests came before,
\* blank titles and a null title among them.
C13_PersistedTitleNotBlank ==
    \A id \in DOMAIN store :
        /\ IsVal(store[id].title)
        /\ store[id].title[2] # <<>>
        /\ \E i \in DOMAIN store[id].title[2] : ~IsSpace(store[id].title[2][i])

\* an update of a row with title null was answered 500 and the row is there
C13_Witness ==
    /\ req.op = "update" /\ resp.status = 500
    /\ req.body[1].title = Null
    /\ PathId(req) \in DOMAIN store

TaskFields == {"id", "title", "description", "is_completed", "created_at", "updated_at"}

\* C14: a get of the id a create has just returned, handled next after that
\* create, answers 200 with a record equal to the created one in all six
\* fields.
C14_GetAfterCreateRoundTrip ==
    [][(/\ req.op = "create" /\ resp.status = 201
        /\ req'.op = "get" /\ req'.path[1].wellformed
        /\ PathId(req') = resp.body[1].id) =>
          /\ resp'.status = 200
          /\ Len(resp'.body) = 1
          /\ \A f \in TaskFields : resp'.body[1][f] = resp.body[1][f]]_vars

\* a get returned the row of a create that sent a padded title of 200
\* characters, before any later reading of the clock
C14_Witness ==
    /\ req.op = "get" /\ resp.status = 200
    /\ resp.body[1].title = Val(Rep("a", CreateTitleMaxLength))
    /\ resp.body[1] = store[PathId(req)]
    /\ resp.body[1].updated_at = clock

\* C15: the table holds exactly the records created and not deleted (a 201
\* create adds the row of the id it returns, a 204 delete removes the row of
\* its id, no other step adds or removes a row), and a list answers 200 with
\* every row of the table exactly once, none when the table is empty, in
\* non-increasing order of created_at.
C15_ListIsTheLiveRecordsSorted ==
    [][/\ DOMAIN store' =
             IF req'.op = "create" /\ resp'.status = 201
             THEN DOMAIN store \cup {resp'.body[1].id}
             ELSE IF req'.op = "delete" /\ resp'.status = 204
             THEN DOMAIN store \ {PathId(req')}
             ELSE DOMAIN store
       /\ req'.op = "list" =>
             /\ resp'.status = 200
             /\ Len(resp'.body) = Cardinality(DOMAIN store)
             /\ \A id \in DOMAIN store :
                    \E i \in DOMAIN resp'.body : resp'.body[i] = store[id]
             /\ \A i, j \in DOMAIN resp'.body :
                    i < j => resp'.body[i].created_at >= resp'.body[j].created_at]_vars

\* a list returned the one row left after two creates and a delete
C15_Witness ==
    /\ req.op = "list" /\ resp.status = 200
    /\ Len(resp.body) = 1
    /\ Cardinality(issued) = 2
    /\ resp.body[1] = store[resp.body[1].id]

\* Requests are handled one after another and uuid4 hands out the least
\* unused id, so of two records the one with the smaller id is the one whose
\* create returned before the other's was issued.
CreatedBefore(a, b) == a.id < b.id

\* C16 as claimed: in every list, of two records the one created later comes
\* first.
C16_NewestFirstByCreationOrder ==
    req.op = "list" =>
        \A i, j \in DOMAIN resp.body :
            CreatedBefore(resp.body[i], resp.body[j]) => j < i

\* C16 as amended: of two records of a list the one created later never has
\* the smaller created_at, and it comes first whenever its created_at is
\* greater; with equal created_at either may come first.
C16_NewestFirstWhenTimesDiffer ==
    req.op = "list" =>
        \A i, j \in DOMAIN resp.body :
            CreatedBefore(resp.body[i], resp.body[j]) =>
                /\ resp.body[i].created_at <= resp.body[j].created_at
                /\ resp.body[i].created_at < resp.body[j].created_at => j < i

\* a list of two records created at different readings of the clock
C16_Witness ==
    /\ req.op = "list" /\ resp.status = 200
    /\ Len(resp.body) = 2
    /\ CreatedBefore(resp.body[2], resp.body[1])
    /\ resp.body[2].created_at < resp.body[1].created_at

\* the ids of deleted records: handed out by a create and with no row
Deleted == issued \ DOMAIN store

\* C17: a 204 delete leaves its id without a row, an id without a row never
\* gets one again, every later get, update and delete of it that passes
\* validation is answered 404 TASK_NOT_FOUND and changes nothing, and no list
\* returns a record with it.
C17_DeletedStaysNotFound ==
    [][/\ (req'.op = "delete" /\ resp'.status = 204) =>
              /\ PathId(req') \in DOMAIN store
              /\ PathId(req') \in Deleted'
       /\ Deleted \subseteq Deleted'
       /\ (/\ req'.op \in {"get", "update", "delete"}
           /\ Validated(req')
           /\ PathId(req') \in Deleted) =>
              /\ resp'.status = 404
              /\ resp'.error_code = "TASK_NOT_FOUND"
              /\ resp'.detail_id = PathId(req')
              /\ store' = store
       /\ req'.op = "list" =>
              \A i \in DOMAIN resp'.body : resp'.body[i].id \notin Deleted]_vars

\* a second delete of a deleted id was answered 404 while another row lives
C17_Witness ==
    /\ req.op = "delete" /\ resp.status = 404
    /\ resp.error_code = "TASK_NOT_FOUND"
    /\ PathId(req) \in Deleted
    /\ store # <<>>

\* C18: a 204 delete leaves the table as it was less the row of its id: every
\* other row is there with every field as before, there is exactly one row
\* fewer, and one entry fewer than a list handled just before returned.
C18_DeleteRemovesOnlyItsRow ==
    [][(req'.op = "delete" /\ resp'.status = 204) =>
          LET id == PathId(req')
          IN  /\ id \in DOMAIN store
              /\ DOMAIN store' = DOMAIN store \ {id}
              /\ \A other \in DOMAIN store \ {id} : store'[other] = store[other]
              /\ Cardinality(DOMAIN store') = Cardinality(DOMAIN store) - 1
              /\ req.op = "list" =>
                    Cardinality(DOMAIN store') = Len(resp.body) - 1]_vars

\* a delete succeeded and left the other row, which an update had changed
C18_Witness ==
    /\ req.op = "delete" /\ resp.status = 204
    /\ PathId(req) \in Deleted
    /\ \E other \in DOMAIN store :
          /\ store[other].is_completed = Val(TRUE)
          /\ store[other].updated_at > store[other].created_at

\* the sessions whose UPDATE has been committed
CommittedSessions == {s \in Sessions : sessions[s].order > 0}

\* C19: of two updates of one id handled concurrently neither is answered
\* with an error while the row exists, and once both have committed every
\* field both sent has, in the row, the value sent by the one that committed
\* last.
C19_LastWriterWins ==
    /\ \A s \in Sessions :
          (sessions[s].pc = "done" /\ 1 \in DOMAIN store) =>
              sessions[s].status \in {200, 404}
    /\ \A first, last \in CommittedSessions :
          (/\ sessions[first].order < sessions[last].order
           /\ PathId(sessions[first]) = PathId(sessions[last])
           /\ PathId(sessions[last]) \in DOMAIN store) =>
              \A f \in Sent(sessions[first].body[1]) \cap Sent(sessions[last].body[1]) :
                  store[PathId(sessions[last])][f] = TaskUpdate(sessions[last].body[1])[f]

\* C21: a get and a list leave the table as it was; a 200 get returns the row
\* of its id as the table has it, so that two gets of one id with no write
\* between them return the same six fields; a get handled next after a get of
\* the same id is answered as that one was.
C21_GetAndListReadOnly ==
    [][req'.op \in {"get", "list"} =>
          /\ store' = store
          /\ (req'.op = "get" /\ resp'.status = 200) =>
                /\ Len(resp'.body) = 1
                /\ \A f \in TaskFields : resp'.body[1][f] = store[PathId(req')][f]
          /\ (req'.op = "get" /\ req.op = "get" /\ req'.path = req.path) =>
                /\ resp'.status = resp.status
                /\ resp'.body = resp.body]_vars

\* a get returned a completed row while the table holds two rows
C21_Witness ==
    /\ req.op = "get" /\ resp.status = 200
    /\ resp.body[1].is_completed = Val(TRUE)
    /\ resp.body[1].updated_at > resp.body[1].created_at
    /\ Cardinality(DOMAIN store) = 2
    /\ store[PathId(req)] = resp.body[1]

\* C22: whatever the row of a live record holds, an update that sends
\* is_completed true or false and nothing else is answered 200 and leaves
\* that value in the row and in the returned record; a delete of a live
\* record is answered 204; and whether a validated update of a live record
\* succeeds is decided by its body alone (it fails only for a null title or
\* a null is_completed), never by the row.
C22_CompletionFreelyToggleable ==
    [][(/\ req'.op \in {"update", "delete"}
        /\ Validated(req')
        /\ PathId(req') \in DOMAIN store) =>
          LET id == PathId(req')
          IN  /\ req'.op = "delete" => resp'.status = 204
              /\ req'.op = "update" =>
                    LET body == req'.body[1]
                    IN  /\ resp'.status =
                              IF body.title = Null \/ body.is_completed = Null
                              THEN 500 ELSE 200
                        /\ (Sent(body) = {"is_completed"} /\ IsVal(body.is_completed)) =>
                              /\ resp'.status = 200
                              /\ store'[id].is_completed = body.is_completed
                              /\ resp'.body[1].is_completed = body.is_completed]_vars

\* an update sent is_completed false alone and the row, changed before,
\* holds false
C22_Witness ==
    /\ req.op = "update" /\ resp.status = 200
    /\ Sent(req.body[1]) = {"is_completed"}
    /\ req.body[1].is_completed = Val(FALSE)
    /\ store[PathId(req)].is_completed = Val(FALSE)
    /\ store[PathId(req)].title = Val(Strip(SecondTitle))

\* C23: a request that fails validation is answered 400 VALIDATION_ERROR
\* with a field_errors key, and no other request is; 404 and TASK_NOT_FOUND
\* go together, without a field_errors key, and only for a request that
\* passed validation and named an id with no row.
C23_ErrorKindsMapToResponses ==
    /\ resp.status = 400 <=> (req.op # "none" /\ ~Validated(req))
    /\ resp.status = 400 <=> resp.error_code = "VALIDATION_ERROR"
    /\ resp.status = 400 =>
          /\ "field_errors" \in resp.keys
          /\ DOMAIN resp.field_errors # {}
    /\ resp.status = 404 <=> resp.error_code = "TASK_NOT_FOUND"
    /\ resp.status = 404 =>
          /\ "field_errors" \notin resp.keys
          /\ resp.field_errors = NoFieldErrors
          /\ req.op \in {"get", "update", "delete"}
          /\ Validated(req)
          /\ PathId(req) \notin DOMAIN store

\* a get with a path segment that is no UUID was answered 400 for task_id
C23_Witness ==
    /\ req.op = "get" /\ ~req.path[1].wellformed
    /\ resp.status = 400
    /\ DOMAIN resp.field_errors = {"task_id"}
    /\ store # <<>>

\* the number of COMMIT statements a request sent
Commits(db) == Cardinality({i \in DOMAIN db : db[i] = "COMMIT"})

\* C24: a create, update or delete during which the database failed is
\* answered with the error (500), after at most one COMMIT and a rollback,
\* and leaves the table as it was before the request.
C24_StoreFailureLeavesStoreUnchanged ==
    [][(req'.op \in {"create", "update", "delete"} /\ resp'.status = 500) =>
          /\ Commits(resp'.db) <= 1
          /\ resp'.db[Len(resp'.db)] = "ROLLBACK"
          /\ resp'.body = <<>>
          /\ store' = store]_vars

\* C25: a create whose body passes validation is answered 201 when the
\* database does not fail; it adds one row, under an id that had none, with
\* the title and description of the validated input and is_completed false,
\* returns that row, and leaves every row that was there as it was.
C25_CreateAddsOneRecord ==
    [][(req'.op = "create" /\ Validated(req')) =>
          /\ resp'.status = 201
          /\ Len(resp'.body) = 1
          /\ LET id == resp'.body[1].id
                 task_data == TaskCreate(req'.body[1])
             IN  /\ id \notin DOMAIN store
                 /\ DOMAIN store' = DOMAIN store \cup {id}
                 /\ store'[id] = resp'.body[1]
                 /\ store'[id].title = task_data.title
                 /\ store'[id].description = task_data.description
                 /\ store'[id].is_completed = Val(FALSE)
                 /\ \A other \in DOMAIN store : store'[other] = store[other]]_vars

\* a create added a second row beside one that had been completed
C25_Witness ==
    /\ req.op = "create" /\ resp.status = 201
    /\ Cardinality(DOMAIN store) = 2
    /\ store[resp.body[1].id].is_completed = Val(FALSE)
    /\ \E other \in DOMAIN store \ {resp.body[1].id} :
          store[other].is_completed = Val(TRUE)

\* the sessions that had read the row of their id and had not yet committed
\* when the row was deleted
ReadBeforeDelete ==
    {s \in Sessions : sessions[s].pc = "set" /\ PathId(sessions[s]) \in Deleted}

\* C26: once a delete has committed the id has no row in any later state,
\* whatever the updates in flight do: the commit of an update that had read
\* the row before the delete leaves the table as it is and the update ends
\* with an error, and every get of the id is answered 404. (The steps of the
\* sessions change sessions; a step that leaves it is a request handled in
\* one step, and req' is that request.)
C26_NoResurrectionByUpdate ==
    [][/\ Deleted \subseteq Deleted'
       /\ \A s \in ReadBeforeDelete :
             sessions'[s].pc # "set" =>
                /\ store' = store
                /\ sessions'[s].pc = "done" => sessions'[s].status = 500
       /\ \A s \in Sessions :
             (sessions[s].pc \in {"idle", "set", "committed"}
                /\ sessions'[s].pc = "done"
                /\ PathId(sessions'[s]) \in Deleted) =>
                 sessions'[s].status \in {404, 500}
       /\ (/\ req'.op = "get" /\ sessions' = sessions
           /\ req'.path[1].wellformed /\ PathId(req') \in Deleted) =>
             /\ resp'.status = 404
             /\ resp'.error_code = "TASK_NOT_FOUND"]_vars

\* an update that had read the row ended with an error after the delete, and
\* a get of the id was answered 404
C26_Witness ==
    /\ req.op = "get" /\ resp.status = 404
    /\ PathId(req) \in Deleted
    /\ \E s \in Sessions :
          /\ sessions[s].loaded # <<>>
          /\ sessions[s].order = 0
          /\ sessions[s].pc = "done" /\ sessions[s].status = 500

\* the delete requests that found the row of id at their existence check and
\* have been answered
DeletesAnswered(id) ==
    {s \in Sessions :
        /\ sessions[s].pc = "done"
        /\ sessions[s].loaded # <<>> /\ sessions[s].task = <<>>
        /\ PathId(sessions[s]) = id}

\* C27: of the concurrent deletes of one id that all found the row, once all
\* are answered exactly one was answered 204 and every other one 404.
C27_ExactlyOneDeleteSucceeds ==
    \A id \in ClientUUIDs :
        Cardinality(DeletesAnswered(id)) > 1 =>
            /\ Cardinality({s \in DeletesAnswered(id) : sessions[s].status = 204}) = 1
            /\ \A s \in DeletesAnswered(id) : sessions[s].status \in {204, 404}

\* C28: every row of the table has is_completed true or false, never NULL,
\* whatever requests came before, an update with is_completed null among
\* them.
C28_PersistedCompletionNotNull ==
    \A id \in DOMAIN store : store[id].is_completed \in {Val(TRUE), Val(FALSE)}

\* an update of a completed row with is_completed null was answered 500 and
\* the row is still completed
C28_Witness ==
    /\ req.op = "update" /\ resp.status = 500
    /\ req.body[1].is_completed = Null
    /\ req.body[1].title # Null
    /\ PathId(req) \in DOMAIN store
    /\ store[PathId(req)].is_completed = Val(TRUE)

\* the key of an error: its last location element, "unknown" when it has no
\* location
FieldOf(error) == IF error.loc = <<>> THEN "unknown" ELSE error.loc[Len(error.loc)]

\* the messages of the errors of E whose key is k, in their order in E
RECURSIVE MessagesOf(_, _)
MessagesOf(E, k) ==
    IF E = <<>> THEN <<>>
    ELSE IF FieldOf(E[Len(E)]) = k
    THEN Append(MessagesOf(SubSeq(E, 1, Len(E) - 1), k), E[Len(E)].msg)
    ELSE MessagesOf(SubSeq(E, 1, Len(E) - 1), k)

RECURSIVE TotalLen(_, _)
TotalLen(f, keys) ==
    IF keys = {} THEN 0
    ELSE LET k == CHOOSE x \in keys : TRUE
         IN  Len(f[k]) + TotalLen(f, keys \ {k})

\* C29: the field_errors of the response to a validation failure with error
\* list E has one key for each distinct last location element of the errors
\* of E ("unknown" for an empty location), under each key the messages of
\* the errors with that key in their order in E, and as many messages in all
\* as E has errors.
C29_FieldErrorsGroupByField ==
    (req.op = "invalid" /\ resp.op = "invalid") =>
        LET E == req.body[1]
            fe == resp.field_errors
        IN  /\ resp.status = 400
            /\ DOMAIN fe = {FieldOf(E[i]) : i \in DOMAIN E}
            /\ \A k \in DOMAIN fe : fe[k] = MessagesOf(E, k)
            /\ TotalLen(fe, DOMAIN fe) = Len(E)

\* three errors, two of them for title at different depths with different
\* messages and one without a location, were grouped
C29_Witness ==
    /\ req.op = "invalid" /\ resp.op = "invalid"
    /\ Len(req.body[1]) = 3
    /\ req.body[1][1].loc = <<"body", "title">>
    /\ req.body[1][2].loc = <<>>
    /\ req.body[1][3].loc = <<"body", "item", "title">>
    /\ req.body[1][1].msg # req.body[1][3].msg
    /\ DOMAIN resp.field_errors = {"title", "unknown"}

====
